---- MODULE Spec2Model ----
(***************************************************************************)
(* SORT (src/sort_with_detailed_explanation.py): the geometry kernel, the  *)
(* association solver, the per-track bookkeeping of KalmanBoxTracker and   *)
(* the per-frame pipeline of Sort.update.                                  *)
(*                                                                         *)
(* Conventions.                                                            *)
(*  - Python lists and numpy rows are TLA+ sequences, so positions are     *)
(*    1-based here and 0-based in the source; Python position p is         *)
(*    position p+1 of the sequence.                                        *)
(*  - A box is <<x1, y1, x2, y2>> with integer corners; the score column   *)
(*    of a detection row is never read by the code and is left out.        *)
(*  - A quotient of two floats is the pair <<numerator, denominator>>;     *)
(*    a pair with denominator 0 and numerator 0 is NaN, and every          *)
(*    comparison with NaN is false, as in numpy.                           *)
(***************************************************************************)
EXTENDS Integers, Sequences, FiniteSets, TLC

\* ------------------------------------------------------------------------
\* Small arithmetic helpers (numpy scalar operations)

Max(a, b) == IF a >= b THEN a ELSE b

Min(a, b) == IF a <= b THEN a ELSE b

Abs(a) == IF a >= 0 THEN a ELSE -a

RECURSIVE GCD(_, _)
GCD(a, b) == IF b = 0 THEN a ELSE GCD(b, a % b)

\* float comparisons on quotients <<n, d>> with d >= 0; d = 0 is NaN
IsNaNQ(q) == q[2] = 0

LtQ(p, q) == ~IsNaNQ(p) /\ ~IsNaNQ(q) /\ p[1] * q[2] < q[1] * p[2]

GtQ(p, q) == LtQ(q, p)

GeQ(p, q) == ~IsNaNQ(p) /\ ~IsNaNQ(q) /\ p[1] * q[2] >= q[1] * p[2]

\* ------------------------------------------------------------------------
\* iou_batch (lines 112-128)

\* iou with the intersection counted twice in the union
iou_NoMinus(bb_test, bb_gt) ==
    LET xx1 == Max(bb_test[1], bb_gt[1])
        yy1 == Max(bb_test[2], bb_gt[2])
        xx2 == Min(bb_test[3], bb_gt[3])
        yy2 == Min(bb_test[4], bb_gt[4])
        w   == Max(0, xx2 - xx1)
        h   == Max(0, yy2 - yy1)
    IN  <<w * h, (bb_test[3] - bb_test[1]) * (bb_test[4] - bb_test[2])
                 + (bb_gt[3] - bb_gt[1]) * (bb_gt[4] - bb_gt[2])>>

\* one entry of the broadcast: o = wh / (area(test) + area(gt) - wh)
iou(bb_test, bb_gt) ==
    LET xx1 == Max(bb_test[1], bb_gt[1])
        yy1 == Max(bb_test[2], bb_gt[2])
        xx2 == Min(bb_test[3], bb_gt[3])
        yy2 == Min(bb_test[4], bb_gt[4])
        w   == Max(0, xx2 - xx1)
        h   == Max(0, yy2 - yy1)
        wh  == w * h
    IN  <<wh, (bb_test[3] - bb_test[1]) * (bb_test[4] - bb_test[2])
              + (bb_gt[3] - bb_gt[1]) * (bb_gt[4] - bb_gt[2]) - wh>>

\* the matrix o[i][j], i over bb_test (detections), j over bb_gt (trackers)
iou_batch(bb_test, bb_gt) ==
    [i \in 1..Len(bb_test) |-> [j \in 1..Len(bb_gt) |-> iou(bb_test[i], bb_gt[j])]]

\* ------------------------------------------------------------------------
\* linear_assignment (lines 84-95)

\* the sequence of the pairs of S in row-major order (the order of np.where,
\* of the rows of lap.lapjv's x and of scipy's row_ind)
RECURSIVE RowMajor(_)

First(S) == CHOOSE p \in S : \A q \in S : p[1] < q[1] \/ (p[1] = q[1] /\ p[2] <= q[2])

Then(S, p) == <<p>> \o RowMajor(S \ {p})

RowMajor(S) == IF S = {} THEN <<>> ELSE Then(S, First(S))

\* least common multiple of the denominators of a matrix of quotients
RECURSIVE LCMOf(_)
LCMOf(S) ==
    IF S = {} THEN 1
    ELSE LET d == CHOOSE e \in S : TRUE
             r == LCMOf(S \ {d})
         IN  (d * r) \div GCD(d, r)

Denominators(cost_matrix) ==
    {cost_matrix[i][j][2] : i \in DOMAIN cost_matrix, j \in DOMAIN cost_matrix[1]}

RECURSIVE TotalCost(_, _, _)
TotalCost(cost_matrix, S, L) ==
    IF S = {} THEN 0
    ELSE LET p == CHOOSE e \in S : TRUE
             c == cost_matrix[p[1]][p[2]]
         IN  c[1] * (L \div c[2]) + TotalCost(cost_matrix, S \ {p}, L)

\* the one-to-one pairings of rows with columns that pair min(n, m) of them
Assignments(n, m) ==
    IF n <= m
    THEN {{<<i, f[i]>> : i \in 1..n} :
            f \in {g \in [1..n -> 1..m] : \A i \in 1..n : \A k \in 1..n : i # k => g[i] # g[k]}}
    ELSE {{<<f[j], j>> : j \in 1..m} :
            f \in {g \in [1..m -> 1..n] : \A j \in 1..m : \A k \in 1..m : j # k => g[j] # g[k]}}

SetMin(S) == CHOOSE x \in S : \A y \in S : x <= y

\* Both backends (lap.lapjv with extend_cost=True, scipy's
\* linear_sum_assignment) return a pairing of min(n, m) rows and columns of
\* least total cost, as rows [row, col] in increasing row order; which of
\* several pairings of equal cost is returned is up to the backend, so the
\* result is any of them.  Called only on a matrix with n > 0 and m > 0.
LeastCost(cost_matrix, all, L) == SetMin({TotalCost(cost_matrix, S, L) : S \in all})

Cheapest(cost_matrix, all, L, least) ==
    {RowMajor(S) : S \in {R \in all : TotalCost(cost_matrix, R, L) = least}}

CheapestOf(cost_matrix, all, L) ==
    Cheapest(cost_matrix, all, L, LeastCost(cost_matrix, all, L))

linear_assignment(cost_matrix) ==
    CheapestOf(cost_matrix, Assignments(Len(cost_matrix), Len(cost_matrix[1])),
               LCMOf(Denominators(cost_matrix)))

\* ------------------------------------------------------------------------
\* associate_detections_to_trackers (lines 222-278)

Neg(iou_matrix) ==
    [i \in DOMAIN iou_matrix |->
       [j \in DOMAIN iou_matrix[i] |-> <<-iou_matrix[i][j][1], iou_matrix[i][j][2]>>]]

SetMax(S) == CHOOSE x \in S : \A y \in S : y <= x

\* lines 237-238: a = (iou_matrix > iou_threshold), and the test
\* a.sum(1).max() == 1 and a.sum(0).max() == 1
Above(iou_matrix, iou_threshold, n, m) ==
    {p \in (1..n) \X (1..m) : GtQ(iou_matrix[p[1]][p[2]], iou_threshold)}

UniquePairing(a, n, m) ==
    /\ SetMax({Cardinality({p \in a : p[1] = i}) : i \in 1..n}) = 1
    /\ SetMax({Cardinality({p \in a : p[2] = j}) : j \in 1..m}) = 1

\* lines 236-253: the candidate pairs; a set, because linear_assignment may
\* return any pairing of least cost
Candidates(iou_matrix, a, n, m) ==
    IF UniquePairing(a, n, m)
    THEN {RowMajor(a)}
    ELSE linear_assignment(Neg(iou_matrix))

matched_indices_of(iou_matrix, iou_threshold, n, m) ==
    IF Min(n, m) > 0
    THEN Candidates(iou_matrix, Above(iou_matrix, iou_threshold, n, m), n, m)
    ELSE {<<>>}

Column(matched_indices, c) == {matched_indices[k][c] : k \in DOMAIN matched_indices}

\* lines 255-263: the indices 1..n that are in no candidate pair, increasing
NotIn(n, used) == SelectSeq([k \in 1..n |-> k], LAMBDA d : d \notin used)

\* Demoted without lines 269-270
Demoted_Dropped(matched_indices, iou_matrix, iou_threshold) == <<>>

\* lines 266-272: the candidate pairs below the threshold, in order
Demoted(matched_indices, iou_matrix, iou_threshold) ==
    SelectSeq(matched_indices, LAMBDA m : LtQ(iou_matrix[m[1]][m[2]], iou_threshold))

\* Kept without the test of line 268
Kept_Unfiltered(matched_indices, iou_matrix, iou_threshold) == matched_indices

\* lines 266-276: the candidate pairs that are kept as matches, in order
Kept(matched_indices, iou_matrix, iou_threshold) ==
    SelectSeq(matched_indices, LAMBDA m : ~LtQ(iou_matrix[m[1]][m[2]], iou_threshold))

\* lines 255-278 for one value of matched_indices
Results(matched_indices, low, kept, n, m) ==
    [matches |-> kept,
     unmatched_detections |->
         NotIn(n, Column(matched_indices, 1)) \o [k \in DOMAIN low |-> low[k][1]],
     unmatched_trackers |->
         NotIn(m, Column(matched_indices, 2)) \o [k \in DOMAIN low |-> low[k][2]]]

Outcome(matched_indices, iou_matrix, iou_threshold, n, m) ==
    Results(matched_indices,
            Demoted(matched_indices, iou_matrix, iou_threshold),
            Kept(matched_indices, iou_matrix, iou_threshold), n, m)

Outcomes(iou_matrix, iou_threshold, n, m) ==
    {Outcome(mi, iou_matrix, iou_threshold, n, m) :
       mi \in matched_indices_of(iou_matrix, iou_threshold, n, m)}

\* every result the call can return
associate_detections_to_trackers(detections, trackers, iou_threshold) ==
    IF Len(trackers) = 0
    THEN {[matches |-> <<>>,
           unmatched_detections |-> [k \in 1..Len(detections) |-> k],
           unmatched_trackers |-> <<>>]}
    ELSE Outcomes(iou_batch(detections, trackers), iou_threshold,
                  Len(detections), Len(trackers))

\* ------------------------------------------------------------------------
\* convert_bbox_to_z (lines 131-143), convert_x_to_bbox (lines 146-156)
\*
\* A filter state kf.x is <<2x, 2y, s, r, 2x', 2y', s'>>: the centre and its
\* velocity are stored doubled so that x = bbox[0] + w/2 stays an integer;
\* the aspect ratio r = w / float(h) is the quotient <<w, h>>.

convert_bbox_to_z(bbox) ==
    LET w == bbox[3] - bbox[1]
        h == bbox[4] - bbox[2]
    IN  <<2 * bbox[1] + w, 2 * bbox[2] + h, w * h, <<w, h>>>>

\* np.sqrt of a non-negative integer that is a perfect square (the largest
\* k with k * k <= v is found by Newton's iteration from above)
RECURSIVE Newton(_, _)
Newton(v, g) ==
    IF (g + v \div g) \div 2 >= g THEN g ELSE Newton(v, (g + v \div g) \div 2)

Sqrt(v) == CHOOSE k \in {IF v = 0 THEN 0 ELSE Newton(v, v)} : k * k = v

\* The result is [pos, nan, inf]: pos the four corners, nan / inf whether
\* some corner is NaN / is infinite (such a corner is written 0 in pos).
\*   w = np.sqrt(x[2] * x[3]) ; h = x[2] / w
\* r = w/0. is inf or NaN, and then x[2] * x[3] is NaN (x[2] is 0 whenever
\* h was 0); the square root of a negative number is NaN; x[2] / 0. is NaN
\* for x[2] = 0 and infinite otherwise.
Corners(x, w) ==
    IF w = 0
    THEN [pos |-> <<x[1] \div 2, 0, x[1] \div 2, 0>>,
          nan |-> (x[3] = 0), inf |-> (x[3] # 0)]
    ELSE [pos |-> <<(x[1] - w) \div 2, (x[2] - x[3] \div w) \div 2,
                    (x[1] + w) \div 2, (x[2] + x[3] \div w) \div 2>>,
          nan |-> FALSE, inf |-> FALSE]

\* The largest finite double.  The numbers of the model are scaled down so
\* that it lies within TLC's integers: a product above it is infinite.
DoubleMax == 20000

\* x[2] * x[3] above the largest double is inf: then w = inf, h = x[2] / inf
\* = 0., and the box is [-inf, y, inf, y], with no NaN in it.
convert_x_to_bbox(x) ==
    IF x[4][2] = 0 \/ x[3] * x[4][1] * x[4][2] < 0
    THEN [pos |-> <<0, 0, 0, 0>>, nan |-> TRUE, inf |-> FALSE]
    ELSE IF (x[3] * x[4][1]) \div x[4][2] > DoubleMax
    THEN [pos |-> <<0, x[2] \div 2, 0, x[2] \div 2>>, nan |-> FALSE, inf |-> TRUE]
    ELSE Corners(x, Sqrt((x[3] * x[4][1]) \div x[4][2]))

\* ------------------------------------------------------------------------
\* KalmanBoxTracker (lines 159-219)

\* kf.predict(): x = F x (line 170); the covariance does not enter the mean
kf_predict(x) ==
    <<x[1] + x[5], x[2] + x[6], x[3] + x[7], x[4], x[5], x[6], x[7]>>

\* kf.update(z): x = x + K (z - H x).  The model feeds a track only
\* measurements equal to H x (see Boxes), for which the new mean is x
\* whatever the gain K is; on any other measurement the operator is
\* undefined and TLC stops.
kf_update(x, z) ==
    CHOOSE y \in {x} : <<x[1], x[2], x[3], x[4]>> = z

\* __init__ with the first detection counted as a hit
KalmanBoxTracker_init_Hit(bbox, cnt, serial) ==
    [kf_x |-> convert_bbox_to_z(bbox) \o <<0, 0, 0>>,
     time_since_update |-> 0,
     id |-> cnt,
     history |-> <<>>,
     hits |-> 1,
     hit_streak |-> 1,
     age |-> 0,
     serial |-> serial]

\* __init__ (lines 164-186) with KalmanBoxTracker.count = cnt; line 182 is
\* in the caller of this operator.  serial is not a field of the source: it
\* numbers the objects in the order of their construction.
KalmanBoxTracker_init(bbox, cnt, serial) ==
    [kf_x |-> convert_bbox_to_z(bbox) \o <<0, 0, 0>>,
     time_since_update |-> 0,
     id |-> cnt,
     history |-> <<>>,
     hits |-> 0,
     hit_streak |-> 0,
     age |-> 0,
     serial |-> serial]

\* update without line 194
KalmanBoxTracker_update_NoHits(self, bbox) ==
    [self EXCEPT !.time_since_update = 0,
                 !.history = <<>>,
                 !.hit_streak = @ + 1,
                 !.kf_x = kf_update(@, convert_bbox_to_z(bbox))]

\* update (lines 188-196)
KalmanBoxTracker_update(self, bbox) ==
    [self EXCEPT !.time_since_update = 0,
                 !.history = <<>>,
                 !.hits = @ + 1,
                 !.hit_streak = @ + 1,
                 !.kf_x = kf_update(@, convert_bbox_to_z(bbox))]

\* predict without line 208
Predicted_NoAge(self, x) ==
    [self EXCEPT !.kf_x = x,
                 !.hit_streak = IF self.time_since_update > 0 THEN 0 ELSE @,
                 !.time_since_update = @ + 1,
                 !.history = Append(@, convert_x_to_bbox(x))]

\* predict with line 210 run whatever time_since_update is
Predicted_ResetAlways(self, x) ==
    [self EXCEPT !.kf_x = x,
                 !.age = @ + 1,
                 !.hit_streak = 0,
                 !.time_since_update = @ + 1,
                 !.history = Append(@, convert_x_to_bbox(x))]

\* predict without lines 209-210
Predicted_KeepStreak(self, x) ==
    [self EXCEPT !.kf_x = x,
                 !.age = @ + 1,
                 !.time_since_update = @ + 1,
                 !.history = Append(@, convert_x_to_bbox(x))]

\* lines 208-213, for the state x that kf.predict() has left
Predicted(self, x) ==
    [self EXCEPT !.kf_x = x,
                 !.age = @ + 1,
                 !.hit_streak = IF self.time_since_update > 0 THEN 0 ELSE @,
                 !.time_since_update = @ + 1,
                 !.history = Append(@, convert_x_to_bbox(x))]

\* predict without lines 205-206
KalmanBoxTracker_predict_NoGuard(self) ==
    Predicted(self, kf_predict(self.kf_x))

\* predict (lines 198-213); the value returned is the last entry of history
KalmanBoxTracker_predict(self) ==
    Predicted(self, kf_predict(IF self.kf_x[7] + self.kf_x[3] <= 0
                               THEN [self.kf_x EXCEPT ![7] = 0]
                               ELSE self.kf_x))

\* get_state (lines 215-219)
get_state(self) == convert_x_to_bbox(self.kf_x)

\* ------------------------------------------------------------------------
\* Sort.update (lines 292-336), step by step

\* lines 307-311: predict every tracker, in order
RECURSIVE PredictAll(_)
PredictAll(trackers) ==
    IF trackers = <<>> THEN <<>>
    ELSE <<KalmanBoxTracker_predict(Head(trackers))>> \o PredictAll(Tail(trackers))

Pos(trk) == trk.history[Len(trk.history)]

\* lines 310-311: to_del, the positions whose predicted box holds a NaN
to_del_of(predicted) == {t \in DOMAIN predicted : Pos(predicted[t]).nan}

\* line 312: np.ma.compress_rows(np.ma.masked_invalid(trks)) drops the rows
\* that hold a NaN or an infinity
RECURSIVE compress_rows(_)
compress_rows(predicted) ==
    IF predicted = <<>> THEN <<>>
    ELSE (IF Pos(Head(predicted)).nan \/ Pos(Head(predicted)).inf
          THEN <<>> ELSE <<Pos(Head(predicted)).pos>>)
         \o compress_rows(Tail(predicted))

\* list.pop(p) for a 1-based position p of the list
Pop(list, p) == SubSeq(list, 1, p - 1) \o SubSeq(list, p + 1, Len(list))

\* lines 313-314: for t in reversed(to_del): self.trackers.pop(t)
RECURSIVE PopAll(_, _)
PopAll(list, to_del) ==
    IF to_del = {} THEN list
    ELSE LET t == SetMax(to_del)
         IN  PopAll(Pop(list, t), to_del \ {t})

\* lines 318-319: for m in matched: self.trackers[m[1]].update(dets[m[0], :])
RECURSIVE UpdateMatched(_, _, _)
UpdateMatched(trackers, matched, dets) ==
    IF matched = <<>> THEN trackers
    ELSE LET m == Head(matched)
         IN  UpdateMatched(
                 SubSeq(trackers, 1, m[2] - 1)
                    \o <<KalmanBoxTracker_update(trackers[m[2]], dets[m[1]])>>
                    \o SubSeq(trackers, m[2] + 1, Len(trackers)),
                 Tail(matched), dets)

\* lines 322-324: a new tracker for every unmatched detection, in order;
\* each construction adds 1 to KalmanBoxTracker.count (line 182)
\* Births with line 182 left out: every tracker gets the same id
RECURSIVE Births_SameId(_, _, _, _)
Births_SameId(unmatched_dets, dets, cnt, serial) ==
    IF unmatched_dets = <<>> THEN <<>>
    ELSE <<KalmanBoxTracker_init(dets[Head(unmatched_dets)], cnt, serial)>>
         \o Births_SameId(Tail(unmatched_dets), dets, cnt, serial + 1)

RECURSIVE Births(_, _, _, _)
Births(unmatched_dets, dets, cnt, serial) ==
    IF unmatched_dets = <<>> THEN <<>>
    ELSE <<KalmanBoxTracker_init(dets[Head(unmatched_dets)], cnt, serial)>>
         \o Births(Tail(unmatched_dets), dets, cnt + 1, serial + 1)

\* Emits with a warmup one frame longer
Emits_LongWarmup(trk, min_hits, frame_count) ==
    /\ trk.time_since_update < 1
    /\ (trk.hit_streak >= min_hits \/ frame_count <= min_hits + 1)

\* Emits without the test of time_since_update
Emits_Missed(trk, min_hits, frame_count) ==
    trk.hit_streak >= min_hits \/ frame_count <= min_hits

\* Emits with < for <= in the warmup test
Emits_ShortWarmup(trk, min_hits, frame_count) ==
    /\ trk.time_since_update < 1
    /\ (trk.hit_streak >= min_hits \/ frame_count < min_hits)

\* line 328: the test that puts a tracker into ret
Emits(trk, min_hits, frame_count) ==
    /\ trk.time_since_update < 1
    /\ (trk.hit_streak >= min_hits \/ frame_count <= min_hits)

\* Dead with >= for >
Dead_Early(trk, max_age) == trk.time_since_update >= max_age

\* line 332: the test that removes a tracker
Dead(trk, max_age) == trk.time_since_update > max_age

\* line 329: the row appended to ret (serial is not part of the row)
Row(trk) == [d |-> get_state(trk), id |-> trk.id + 1, serial |-> trk.serial]

\* the walk made from the head of the list to its end
RECURSIVE RowsOf(_, _, _)
RowsOf(trackers, min_hits, frame_count) ==
    IF trackers = <<>> THEN <<>>
    ELSE (IF Emits(Head(trackers), min_hits, frame_count)
          THEN <<Row(Head(trackers))>> ELSE <<>>)
         \o RowsOf(Tail(trackers), min_hits, frame_count)

RECURSIVE Survivors(_, _)
Survivors(trackers, max_age) ==
    IF trackers = <<>> THEN <<>>
    ELSE (IF Dead(Head(trackers), max_age) THEN <<>> ELSE <<Head(trackers)>>)
         \o Survivors(Tail(trackers), max_age)

Walk_Forward(trackers, it, i, ret, max_age, min_hits, frame_count) ==
    [trackers |-> Survivors(trackers, max_age),
     ret |-> ret \o RowsOf(trackers, min_hits, frame_count)]

\* lines 325-333.  it is the position reversed(self.trackers) reads next
\* (a list_reverseiterator stops when its position is outside the list as it
\* is then), i the counter of line 325 (0-based, as in the source).
RECURSIVE Walk(_, _, _, _, _, _, _)
Walk(trackers, it, i, ret, max_age, min_hits, frame_count) ==
    IF it < 1 \/ it > Len(trackers)
    THEN [trackers |-> trackers, ret |-> ret]
    ELSE LET trk  == trackers[it]
             ret1 == IF Emits(trk, min_hits, frame_count)
                     THEN Append(ret, Row(trk)) ELSE ret
             i1   == i - 1
             trs1 == IF Dead(trk, max_age)
                     THEN Pop(trackers, i1 + 1) ELSE trackers
         IN  Walk(trs1, it - 1, i1, ret1, max_age, min_hits, frame_count)

\* ------------------------------------------------------------------------
\* State

\* the Sort objects of the process
Sorts == {"s1", "s2"}

VARIABLES
    count,         \* KalmanBoxTracker.count (line 163), shared by all Sorts
    made,          \* made[s]: Sort.__init__ has run for s
    max_age,       \* self.max_age of each Sort
    min_hits,      \* self.min_hits
    iou_threshold, \* self.iou_threshold
    trackers,      \* self.trackers
    frame_count,   \* self.frame_count
    objects,       \* number of KalmanBoxTracker objects constructed so far
    emitted,       \* emitted[s]: the <<id, serial>> of every row s has returned
    frame,         \* the last call of Sort.update: its input, steps and result
    fed,           \* the detections of every frame fed so far (SpecRun only)
    call,          \* a call of associate_detections_to_trackers on its own
    main,          \* a run of the program as a script (lines 354-414)
    given          \* the trackers as they were before predict (SpecPredict only)

vars == <<count, made, max_age, min_hits, iou_threshold, trackers, frame_count,
          objects, emitted, frame, fed, call, main, given>>

\* iou_threshold = 0.3 (line 282)
DefaultThreshold == <<3, 10>>

NoFrame ==
    [self |-> "none", frame_count |-> 0, dets |-> <<>>, count0 |-> 0,
     predicted |-> <<>>, to_del |-> {}, trks |-> <<>>,
     matched |-> <<>>, unmatched_dets |-> <<>>, unmatched_trks |-> <<>>,
     updated |-> <<>>, born |-> <<>>, ret |-> <<>>]

NoResult ==
    [matches |-> <<>>, unmatched_detections |-> <<>>, unmatched_trackers |-> <<>>]

NoCall ==
    [detections |-> <<>>, trackers |-> <<>>, iou_threshold |-> DefaultThreshold,
     done |-> FALSE, result |-> NoResult]

\* pc: where the script is; display: args.display; benchmark: the directory
\* mot_benchmark exists; images: the image files of the frames exist; todo:
\* the det.txt files that glob has still to yield; cur: mot_tracker; left:
\* the frames still to come of the sequence; status: the exit status, -1
\* while the script runs
NoMain ==
    [pc |-> "off", display |-> FALSE, benchmark |-> FALSE, images |-> FALSE,
     todo |-> 0, cur |-> "none", left |-> 0,
     total_frames |-> 0, total_time |-> 0, status |-> -1]

Init ==
    /\ main = NoMain
    /\ given = <<>>
    /\ count = 0
    /\ made = [s \in Sorts |-> FALSE]
    /\ max_age = [s \in Sorts |-> 0]
    /\ min_hits = [s \in Sorts |-> 0]
    /\ iou_threshold = [s \in Sorts |-> DefaultThreshold]
    /\ trackers = [s \in Sorts |-> <<>>]
    /\ frame_count = [s \in Sorts |-> 0]
    /\ objects = 0
    /\ emitted = [s \in Sorts |-> {}]
    /\ frame = NoFrame
    /\ fed = <<>>
    /\ call = NoCall

\* ------------------------------------------------------------------------
\* Sort (lines 281-336)

\* Sort.__init__ (lines 282-290)
Sort_init(self, ma, mh, thr) ==
    /\ ~made[self]
    /\ made' = [made EXCEPT ![self] = TRUE]
    /\ max_age' = [max_age EXCEPT ![self] = ma]
    /\ min_hits' = [min_hits EXCEPT ![self] = mh]
    /\ iou_threshold' = [iou_threshold EXCEPT ![self] = thr]
    /\ trackers' = [trackers EXCEPT ![self] = <<>>]
    /\ frame_count' = [frame_count EXCEPT ![self] = 0]
    /\ UNCHANGED <<count, objects, emitted, frame, call>>

\* the <<id, serial>> of the rows of ret
RECURSIVE Pairs(_)
Pairs(ret) ==
    IF ret = <<>> THEN {}
    ELSE {<<Head(ret).id, Head(ret).serial>>} \cup Pairs(Tail(ret))

\* count_after with the count reset by every call
count_after_Reset(cnt, born) == Len(born)

\* KalmanBoxTracker.count after the constructions of lines 322-324, each of
\* which runs line 182
count_after(cnt, born) == cnt + Len(born)

\* Sort.update, lines 325-336: the walk is done, the state is written
Returned(self, dets, fc, predicted, to_del, trks, r, updated, born, w) ==
    /\ frame_count' = [frame_count EXCEPT ![self] = fc]
    /\ count' = count_after(count, born)
    /\ objects' = objects + Len(born)
    /\ trackers' = [trackers EXCEPT ![self] = w.trackers]
    /\ emitted' = [emitted EXCEPT ![self] = @ \cup Pairs(w.ret)]
    /\ frame' = [self |-> self, frame_count |-> fc, dets |-> dets, count0 |-> count,
                 predicted |-> predicted, to_del |-> to_del, trks |-> trks,
                 matched |-> r.matches,
                 unmatched_dets |-> r.unmatched_detections,
                 unmatched_trks |-> r.unmatched_trackers,
                 updated |-> updated, born |-> born, ret |-> w.ret]

\* lines 317-333, for the result r of the association
Associated(self, dets, fc, predicted, to_del, trks, r, updated, born) ==
    Returned(self, dets, fc, predicted, to_del, trks, r, updated, born,
             Walk(updated \o born, Len(updated) + Len(born), Len(updated) + Len(born),
                  <<>>, max_age[self], min_hits[self], fc))

\* lines 312-315, for the trackers as predict has left them
AfterPredict(self, dets, fc, predicted, to_del, trks, live) ==
    \E r \in associate_detections_to_trackers(dets, trks, iou_threshold[self]) :
        Associated(self, dets, fc, predicted, to_del, trks, r,
                   UpdateMatched(live, r.matches, dets),
                   Births(r.unmatched_detections, dets, count, objects))

Predicting(self, dets, fc, predicted) ==
    AfterPredict(self, dets, fc, predicted, to_del_of(predicted),
                 compress_rows(predicted), PopAll(predicted, to_del_of(predicted)))

\* Sort.update (lines 292-336)
Sort_update(self, dets) ==
    /\ made[self]
    /\ Predicting(self, dets, frame_count[self] + 1, PredictAll(trackers[self]))
    /\ UNCHANGED <<made, max_age, min_hits, iou_threshold, call>>

\* ------------------------------------------------------------------------
\* Bounds and inputs

\* frames fed to the Sort object of Spec
MaxFrames == 4

\* KalmanBoxTracker objects constructed under Spec
MaxCount == 3

\* frames fed to the Sort object of SpecRun
RunFrames == 5

\* frames fed to each Sort object of SpecTwo
TwoFrames == 3

\* detections and trackers of a call of SpecAssoc
MaxAssoc == 2

\* The detections fed to Sort.update: boxes that do not overlap, and a box
\* of width 0.  A detection is matched to a tracker only if their IoU is at
\* least 0.3, which for these boxes means that the two are equal, so every
\* measurement a filter is updated with equals its predicted state.
BoxA == <<100, 100, 200, 200>>

BoxB == <<0, 0, 10, 10>>

BoxC == <<300, 300, 310, 320>>

BoxZ == <<300, 0, 300, 10>>

\* a box so wide that the square of its width is above DoubleMax
BoxW == <<0, 400, 200, 401>>

SeqsUpTo(S, n) == UNION {[1..k -> S] : k \in 0..n}

\* the frames of Spec: up to two detections, the box of width 0 among them
Frames == SeqsUpTo({BoxA, BoxB, BoxZ}, 2)

\* the frames of SpecRun: at most one detection, of positive width and height
RunDets == SeqsUpTo({BoxA, BoxB, BoxC}, 1)

\* the frames of SpecTwo
TwoDets == SeqsUpTo({BoxA, BoxB}, 1)

\* values of max_age and min_hits given to Sort.__init__
MaxAges == {0, 1}

\* (max_age, min_hits) of the Sort object of Spec: the defaults of line 282,
\* and a Sort that forgets and confirms at once
Settings == {<<1, 3>>, <<0, 1>>}

RunAges == {0, 1, 2}

RunHits == {0, 1, 2, 3}

\* the boxes and thresholds of SpecAssoc; IoU(Box1, Box3) = 1/7,
\* IoU(Box1, Box4) = 1/2, IoU(Box1, Box5) = 3/10, every other pair of
\* different boxes has IoU 0 except IoU(Box4, Box5) = 3/5
Box1 == <<0, 0, 10, 10>>

Box2 == <<100, 100, 110, 110>>

Box3 == <<5, 5, 15, 15>>

Box4 == <<0, 0, 5, 10>>

Box5 == <<0, 0, 3, 10>>

AssocBoxes == {Box1, Box2, Box3, Box4, Box5}

Thresholds == {DefaultThreshold, <<1, 7>>}

\* ------------------------------------------------------------------------
\* Spec: one Sort object, up to two detections in a frame

Construct ==
    \E p \in Settings :
        Sort_init("s1", p[1], p[2], DefaultThreshold) /\ UNCHANGED <<fed, main, given>>

Step ==
    \E dets \in Frames :
        /\ frame_count["s1"] < MaxFrames
        /\ Sort_update("s1", dets)
        /\ count' <= MaxCount
        /\ UNCHANGED <<fed, main, given>>

Next == Construct \/ Step

Spec == Init /\ [][Next]_vars

\* ------------------------------------------------------------------------
\* SpecWide: one Sort object, fed frames that may hold the wide box

\* frames fed to the Sort object of SpecWide
WideFrames == 3

WideDets == SeqsUpTo({BoxA, BoxW}, 2)

\* kf_update is defined for the updates that Sort.update makes on dets: every
\* tracker that line 319 updates is given the box it already holds
Computable(self, dets, predicted) ==
    \A r \in associate_detections_to_trackers(dets, compress_rows(predicted),
                                               iou_threshold[self]) :
        \A k \in DOMAIN r.matches :
            SubSeq(PopAll(predicted, to_del_of(predicted))[r.matches[k][2]].kf_x, 1, 4)
                = convert_bbox_to_z(dets[r.matches[k][1]])

WideConstruct ==
    \E ma \in MaxAges :
        Sort_init("s1", ma, 3, DefaultThreshold) /\ UNCHANGED <<fed, main, given>>

\* the frames on which the model cannot compute kf.update are not fed
WideStep ==
    \E dets \in WideDets :
        /\ made["s1"]
        /\ frame_count["s1"] < WideFrames
        /\ Computable("s1", dets, PredictAll(trackers["s1"]))
        /\ Sort_update("s1", dets)
        /\ UNCHANGED <<fed, main, given>>

NextWide == WideConstruct \/ WideStep

SpecWide == Init /\ [][NextWide]_vars

\* ------------------------------------------------------------------------
\* SpecRun: one Sort object, at most one detection in a frame, the frames
\* fed so far kept in fed

RunConstruct ==
    \E ma \in RunAges : \E mh \in RunHits :
        Sort_init("s1", ma, mh, DefaultThreshold) /\ UNCHANGED <<fed, main, given>>

RunStep ==
    \E dets \in RunDets :
        /\ frame_count["s1"] < RunFrames
        /\ Sort_update("s1", dets)
        /\ fed' = Append(fed, dets)
        /\ UNCHANGED <<main, given>>

NextRun == RunConstruct \/ RunStep

SpecRun == Init /\ [][NextRun]_vars

\* ------------------------------------------------------------------------
\* SpecTwo: two Sort objects of one process, their frames interleaved

TwoConstruct ==
    \E self \in Sorts : \E ma \in MaxAges :
        Sort_init(self, ma, 3, DefaultThreshold) /\ UNCHANGED <<fed, main, given>>

TwoStep ==
    \E self \in Sorts : \E dets \in TwoDets :
        /\ frame_count[self] < TwoFrames
        /\ Sort_update(self, dets)
        /\ UNCHANGED <<fed, main, given>>

NextTwo == TwoConstruct \/ TwoStep

SpecTwo == Init /\ [][NextTwo]_vars

\* ------------------------------------------------------------------------
\* SpecAssoc: associate_detections_to_trackers called on its own

InitAssoc ==
    /\ main = NoMain
    /\ given = <<>>
    /\ count = 0
    /\ made = [s \in Sorts |-> FALSE]
    /\ max_age = [s \in Sorts |-> 0]
    /\ min_hits = [s \in Sorts |-> 0]
    /\ iou_threshold = [s \in Sorts |-> DefaultThreshold]
    /\ trackers = [s \in Sorts |-> <<>>]
    /\ frame_count = [s \in Sorts |-> 0]
    /\ objects = 0
    /\ emitted = [s \in Sorts |-> {}]
    /\ frame = NoFrame
    /\ fed = <<>>
    /\ \E D \in SeqsUpTo(AssocBoxes, MaxAssoc) :
         \E T \in SeqsUpTo(AssocBoxes, MaxAssoc) :
           \E thr \in Thresholds :
              call = [detections |-> D, trackers |-> T, iou_threshold |-> thr,
                      done |-> FALSE, result |-> NoResult]

Associate ==
    /\ ~call.done
    /\ \E r \in associate_detections_to_trackers(call.detections, call.trackers,
                                                 call.iou_threshold) :
          call' = [call EXCEPT !.done = TRUE, !.result = r]
    /\ UNCHANGED <<count, made, max_age, min_hits, iou_threshold, trackers,
                   frame_count, objects, emitted, frame, fed, main, given>>

NextAssoc == Associate

SpecAssoc == InitAssoc /\ [][NextAssoc]_vars

\* ------------------------------------------------------------------------
\* SpecMain: the program run as a script (lines 354-414).  Every det.txt
\* file holds at least two detections and at least one frame.

\* frames of a sequence
MainFrames == 2

\* time.time() - start_time of line 397, in ticks of the clock
Cycles == {0, 1}

InitMain ==
    /\ given = <<>>
    /\ count = 0
    /\ made = [s \in Sorts |-> FALSE]
    /\ max_age = [s \in Sorts |-> 0]
    /\ min_hits = [s \in Sorts |-> 0]
    /\ iou_threshold = [s \in Sorts |-> DefaultThreshold]
    /\ trackers = [s \in Sorts |-> <<>>]
    /\ frame_count = [s \in Sorts |-> 0]
    /\ objects = 0
    /\ emitted = [s \in Sorts |-> {}]
    /\ frame = NoFrame
    /\ fed = <<>>
    /\ call = NoCall
    /\ \E display \in BOOLEAN : \E benchmark \in BOOLEAN : \E images \in BOOLEAN :
         \E todo \in 0..Cardinality(Sorts) :
            main = [NoMain EXCEPT !.pc = "args", !.display = display,
                                  !.benchmark = benchmark,
                                  !.images = benchmark /\ images, !.todo = todo]

\* lines 356-372: exit() raises SystemExit(None), which ends the process
\* with status 0
Main_start ==
    /\ main.pc = "args"
    /\ main' = IF main.display /\ ~main.benchmark
               THEN [main EXCEPT !.pc = "exited", !.status = 0]
               ELSE [main EXCEPT !.pc = "glob"]
    /\ UNCHANGED <<count, made, max_age, min_hits, iou_threshold, trackers,
                   frame_count, objects, emitted, frame, fed, call, given>>

\* lines 373-383: the next file of glob.glob(pattern), a new Sort for it
Main_sequence ==
    /\ main.pc = "glob"
    /\ main.left = 0
    /\ main.todo > 0
    /\ \E self \in Sorts : \E n \in 1..MainFrames :
          /\ self = "s1" \/ made["s1"]
          /\ Sort_init(self, 1, 3, DefaultThreshold)
          /\ main' = [main EXCEPT !.todo = @ - 1, !.cur = self, !.left = n]
    /\ UNCHANGED <<fed, given>>

\* lines 384-409, one frame: io.imread raises when the image is not there,
\* and the traceback ends the process with status 1
Main_frame ==
    /\ main.pc = "glob"
    /\ main.left > 0
    /\ \/ /\ main.display /\ ~main.images
          /\ main' = [main EXCEPT !.pc = "exited", !.status = 1,
                                  !.total_frames = @ + 1]
          /\ UNCHANGED <<count, made, max_age, min_hits, iou_threshold, trackers,
                         frame_count, objects, emitted, frame, call, given>>
       \/ /\ ~(main.display /\ ~main.images)
          /\ \E dets \in TwoDets : \E cycle_time \in Cycles :
                /\ Sort_update(main.cur, dets)
                /\ main' = [main EXCEPT !.left = @ - 1,
                                        !.total_frames = @ + 1,
                                        !.total_time = @ + cycle_time]
    /\ UNCHANGED <<fed, given>>

\* lines 411-414: total_frames / total_time raises ZeroDivisionError when
\* total_time is 0.0, and the traceback ends the process with status 1
Main_report ==
    /\ main.pc = "glob"
    /\ main.left = 0
    /\ main.todo = 0
    /\ main' = [main EXCEPT !.pc = "exited",
                            !.status = IF main.total_time = 0 THEN 1 ELSE 0]
    /\ UNCHANGED <<count, made, max_age, min_hits, iou_threshold, trackers,
                   frame_count, objects, emitted, frame, fed, call, given>>

NextMain == Main_start \/ Main_sequence \/ Main_frame \/ Main_report

SpecMain == InitMain /\ [][NextMain]_vars

\* ------------------------------------------------------------------------
\* KalmanBoxTracker.predict on its own: one tracker, in any filter state of
\* a small set, is predicted once.  Sort never gives a track a velocity in
\* the other specifications (see kf_update), so the area s and its velocity
\* s' are drawn here; the tracker was born from a box of PredictBoxes and
\* keeps its centre and its aspect ratio.  The pair <<0, 0>> stands for the
\* tracker as its constructor left it (the area of its box, no velocity).

PredictBoxes == {BoxB, Box2}

Areas == {-4, -1, 0, 1, 4, 9}

Velocities == -10 .. 7

\* np.sqrt is modelled on perfect squares (see Sqrt): the states drawn are
\* those whose area after the prediction is a perfect square or is not
\* positive
PredictStates ==
    {p \in Areas \X Velocities :
        p[1] + p[2] <= 0 \/ p[1] + p[2] \in {k * k : k \in 1 .. 4}}

InitPredict ==
    /\ main = NoMain
    /\ given = <<>>
    /\ count = 1
    /\ made = [s \in Sorts |-> FALSE]
    /\ max_age = [s \in Sorts |-> 0]
    /\ min_hits = [s \in Sorts |-> 0]
    /\ iou_threshold = [s \in Sorts |-> DefaultThreshold]
    /\ \E bbox \in PredictBoxes : \E p \in PredictStates \cup {<<0, 0>>} :
          trackers = [s \in Sorts |->
                        IF s # "s1" THEN <<>>
                        ELSE IF p = <<0, 0>>
                        THEN <<KalmanBoxTracker_init(bbox, 0, 1)>>
                        ELSE <<[KalmanBoxTracker_init(bbox, 0, 1)
                                  EXCEPT !.kf_x[3] = p[1], !.kf_x[7] = p[2]]>>]
    /\ frame_count = [s \in Sorts |-> 0]
    /\ objects = 1
    /\ emitted = [s \in Sorts |-> {}]
    /\ frame = NoFrame
    /\ fed = <<>>
    /\ call = NoCall

\* one call of predict (lines 198-213) on the tracker
Predict ==
    /\ given = <<>>
    /\ given' = trackers["s1"]
    /\ trackers' = [trackers EXCEPT
                      !["s1"] = <<KalmanBoxTracker_predict(trackers["s1"][1])>>]
    /\ UNCHANGED <<count, made, max_age, min_hits, iou_threshold, frame_count,
                   objects, emitted, frame, fed, call, main>>

NextPredict == Predict

SpecPredict == InitPredict /\ [][NextPredict]_vars

\* ------------------------------------------------------------------------
\* Properties

Range(seq) == {seq[k] : k \in DOMAIN seq}

Occurrences(seq, v) == Cardinality({k \in DOMAIN seq : seq[k] = v})

Finite(box) == [pos |-> box, nan |-> FALSE, inf |-> FALSE]

\* C1: the ids of the rows returned by one call of Sort.update are pairwise
\* distinct, and no two live trackers of a Sort share an id.
C1_DistinctIds ==
    /\ \A i \in DOMAIN frame.ret : \A j \in DOMAIN frame.ret :
          i # j => frame.ret[i].id # frame.ret[j].id
    /\ \A s \in Sorts : \A i \in DOMAIN trackers[s] : \A j \in DOMAIN trackers[s] :
          i # j => trackers[s][i].id # trackers[s][j].id

\* a frame that returned two rows and removed a tracker during its walk
C1_Witness ==
    /\ Len(frame.ret) >= 2
    /\ Len(trackers["s1"]) < Len(frame.updated) + Len(frame.born)

\* C2: within one Sort, an id that was returned for one tracker is never
\* returned for, nor carried by, another one; a tracker is always returned
\* under the same id; ids are handed out from a counter that only grows, so
\* every id in use is below the counter, whatever the other Sort does.
C2_IdsNeverReused ==
    /\ \A s \in Sorts :
         /\ \A p \in emitted[s] : \A q \in emitted[s] : (p[1] = q[1]) <=> (p[2] = q[2])
         /\ \A k \in DOMAIN trackers[s] :
              /\ trackers[s][k].id < count
              /\ \A p \in emitted[s] :
                   (p[1] = trackers[s][k].id + 1) <=> (p[2] = trackers[s][k].serial)
    /\ \A k \in DOMAIN frame.born : frame.born[k].id = frame.count0 + k - 1
    /\ \A k \in DOMAIN frame.predicted : frame.predicted[k].id < frame.count0
    /\ count = frame.count0 + Len(frame.born)

\* a Sort has returned two ids that are not consecutive (the other Sort
\* constructed a tracker in between), the tracker of the first being gone
C2_Witness ==
    \E s \in Sorts : \E p \in emitted[s] : \E q \in emitted[s] :
        /\ q[1] > p[1] + 1
        /\ \A k \in DOMAIN trackers[s] : trackers[s][k].serial # p[2]

\* C3: the first frame of a Sort gives its first tracker the id 0, and a
\* first frame of one detection returns one row, with id 1 (violated: the
\* counter is a class attribute that Sort.__init__ does not reset).
C3_FreshSortStartsAtZero ==
    (frame.self \in Sorts /\ frame.frame_count = 1 /\ frame.born # <<>>) =>
        /\ frame.born[1].id = 0
        /\ Len(frame.dets) = 1 => (Len(frame.ret) = 1 /\ frame.ret[1].id = 1)

\* the second Sort of the process returns the id 2 for its first tracker
C3_Divergence ==
    /\ frame.self = "s2"
    /\ frame.frame_count = 1
    /\ frame.count0 = 1
    /\ Len(frame.dets) = 1
    /\ Len(frame.ret) = 1
    /\ frame.ret[1].id = 2

Counters(trk) ==
    /\ 0 <= trk.hit_streak
    /\ trk.hit_streak <= trk.hits
    /\ trk.hits <= trk.age
    /\ trk.time_since_update >= 0

\* C4: after the predictions, after the updates and at the end of every
\* frame, every tracker has 0 <= hit_streak <= hits <= age and
\* time_since_update >= 0; no tracker is updated twice in a frame, and a
\* tracker that is updated has been predicted before.
C4_Counters ==
    /\ \A trk \in Range(frame.predicted) \cup Range(frame.updated) \cup Range(frame.born) :
          Counters(trk)
    /\ \A s \in Sorts : \A trk \in Range(trackers[s]) : Counters(trk)
    /\ \A i \in DOMAIN frame.matched : \A j \in DOMAIN frame.matched :
          i # j => frame.matched[i][2] # frame.matched[j][2]
    /\ \A i \in DOMAIN frame.matched :
          /\ frame.updated[frame.matched[i][2]].age >= 1
          /\ frame.updated[frame.matched[i][2]].time_since_update = 0
    /\ \A trk \in Range(frame.born) : trk.age = 0 /\ trk.hits = 0

\* a tracker matched in every frame since its birth, next to one that has
\* lost its streak
C4_Witness ==
    /\ frame.matched # <<>>
    /\ \E trk \in Range(trackers["s1"]) : trk.hits = trk.age /\ trk.hits >= 2
    /\ \E trk \in Range(trackers["s1"]) : trk.hit_streak < trk.hits

\* C5: every detection index is exactly once in matches or
\* unmatched_detections, every tracker index exactly once in matches or
\* unmatched_trackers; without trackers all detections are unmatched and
\* nothing is matched; without detections all trackers are unmatched.
C5_Partition ==
    call.done =>
        /\ \A d \in 1..Len(call.detections) :
              Cardinality({k \in DOMAIN call.result.matches :
                              call.result.matches[k][1] = d})
              + Occurrences(call.result.unmatched_detections, d) = 1
        /\ \A t \in 1..Len(call.trackers) :
              Cardinality({k \in DOMAIN call.result.matches :
                              call.result.matches[k][2] = t})
              + Occurrences(call.result.unmatched_trackers, t) = 1
        /\ \A k \in DOMAIN call.result.matches :
              /\ call.result.matches[k][1] \in 1..Len(call.detections)
              /\ call.result.matches[k][2] \in 1..Len(call.trackers)
        /\ Range(call.result.unmatched_detections) \subseteq 1..Len(call.detections)
        /\ Range(call.result.unmatched_trackers) \subseteq 1..Len(call.trackers)
        /\ Len(call.trackers) = 0 =>
              /\ call.result.matches = <<>>
              /\ Len(call.result.unmatched_detections) = Len(call.detections)
        /\ Len(call.detections) = 0 =>
              /\ call.result.matches = <<>>
              /\ Len(call.result.unmatched_trackers) = Len(call.trackers)

\* two detections overlap the first tracker: linear assignment pairs the
\* second detection with the second tracker, and the pair is demoted
C5_Witness ==
    /\ call.done
    /\ call.detections = <<Box1, Box4>>
    /\ call.trackers = <<Box1, Box2>>
    /\ call.result.matches = <<<<1, 1>>>>
    /\ call.result.unmatched_detections = <<2>>
    /\ call.result.unmatched_trackers = <<2>>

\* C6: no pair (d, t) of matches has IoU(detections[d], trackers[t]) below
\* iou_threshold.
C6_NoMatchBelowThreshold ==
    call.done =>
        \A k \in DOMAIN call.result.matches :
            iou(call.detections[call.result.matches[k][1]],
                call.trackers[call.result.matches[k][2]])[1] * call.iou_threshold[2]
            >= call.iou_threshold[1]
               * iou(call.detections[call.result.matches[k][1]],
                     call.trackers[call.result.matches[k][2]])[2]

\* a pair found by linear assignment whose IoU equals the threshold is a
\* match, while the other candidate of the same call is not
C6_Witness ==
    /\ call.done
    /\ call.iou_threshold = <<1, 7>>
    /\ call.detections = <<Box3, Box2>>
    /\ call.trackers = <<Box1, Box4>>
    /\ call.result.matches = <<<<1, 1>>>>

C7_Scenario ==
    /\ call.done
    /\ call.detections = <<Box3>>
    /\ call.trackers = <<Box1, Box2>>
    /\ call.iou_threshold = DefaultThreshold

\* C7 as stated: in the seed scenario the detection is matched to the first
\* tracker, the second tracker is unmatched and the IoU of the match is
\* above 0.3 (violated: that IoU is 1/7).
C7_Original ==
    C7_Scenario =>
        /\ call.result.matches = <<<<1, 1>>>>
        /\ 2 \in Range(call.result.unmatched_trackers)
        /\ iou(Box3, Box1)[1] * 10 > 3 * iou(Box3, Box1)[2]

\* C7 as amended: in the seed scenario the IoU of the detection with the
\* first tracker is 25/175 = 1/7, below 0.3; nothing is matched, the
\* detection is unmatched and both trackers are unmatched (the second
\* first, the first added when its pair with the detection is demoted).
C7_Amended ==
    C7_Scenario =>
        /\ iou(Box3, Box1) = <<25, 175>>
        /\ iou(Box3, Box2)[1] = 0
        /\ call.result.matches = <<>>
        /\ call.result.unmatched_detections = <<1>>
        /\ call.result.unmatched_trackers = <<2, 1>>

C7_Witness == C7_Scenario /\ call.result.unmatched_detections = <<1>>

Default == made["s1"] /\ max_age["s1"] = 1 /\ min_hits["s1"] = 3

Gap == <<<<BoxA>>, <<BoxA>>, <<BoxA>>, <<>>, <<BoxA>>>>

\* C8 as stated: with max_age 1 and min_hits 3, the detection on frames 1,
\* 2, 3 and 5 and none on frame 4, frame 4 returns nothing, frame 5 matches
\* the detection to the one tracker, no tracker is born, and frame 5
\* returns that tracker with id 1 (violated: frame 5 returns nothing).
C8_Original ==
    Default =>
        /\ fed = SubSeq(Gap, 1, 4) => frame.ret = <<>>
        /\ fed = Gap =>
              /\ Len(frame.predicted) = 1
              /\ frame.to_del = {}
              /\ frame.matched = <<<<1, 1>>>>
              /\ frame.born = <<>>
              /\ \E k \in DOMAIN frame.ret : frame.ret[k].id = 1

\* C8 as amended: ... frame 4 returns nothing; on frame 5 the tracker is
\* still live after predict, is matched (no tracker is born) and keeps its
\* id, but frame 5 returns nothing: predict has reset hit_streak, the update
\* makes it 1 < min_hits, and frame_count 5 > min_hits.
C8_Amended ==
    Default =>
        /\ fed = SubSeq(Gap, 1, 4) =>
              /\ frame.ret = <<>>
              /\ Len(trackers["s1"]) = 1
              /\ trackers["s1"][1].time_since_update = 1
        /\ fed = Gap =>
              /\ Len(frame.predicted) = 1
              /\ frame.predicted[1].time_since_update = 2
              /\ frame.predicted[1].hit_streak = 0
              /\ frame.to_del = {}
              /\ frame.matched = <<<<1, 1>>>>
              /\ frame.born = <<>>
              /\ frame.ret = <<>>
              /\ Len(trackers["s1"]) = 1
              /\ trackers["s1"][1].id + 1 = 1
              /\ trackers["s1"][1].hit_streak = 1
              /\ trackers["s1"][1].hits = 3
              /\ trackers["s1"][1].time_since_update = 0

C8_Witness == Default /\ fed = Gap /\ frame.frame_count = 5

\* C9: a Sort whose counter started at 0 and that is fed the same single
\* detection in every frame returns in every frame exactly one row, that
\* box with id 1, for every max_age and min_hits (with min_hits 3 in each
\* of the frames 1..5).
C9_SteadyConfirmation ==
    \A X \in {BoxA, BoxB, BoxC} :
        (made["s1"] /\ fed # <<>> /\ \A i \in DOMAIN fed : fed[i] = <<X>>) =>
            /\ frame.ret = <<[d |-> Finite(X), id |-> 1, serial |-> 0]>>
            /\ Len(trackers["s1"]) = 1
            /\ trackers["s1"][1].hit_streak = Len(fed) - 1

C9_Witness ==
    /\ Default
    /\ fed = <<<<BoxA>>, <<BoxA>>, <<BoxA>>, <<BoxA>>, <<BoxA>>>>
    /\ frame.frame_count = 5
    /\ Len(frame.ret) = 1

\* the number of frames fed since the last one that held the box X
RECURSIVE Misses(_, _)
Misses(frames, X) ==
    IF frames = <<>> \/ frames[Len(frames)] = <<X>> THEN 0
    ELSE 1 + Misses(SubSeq(frames, 1, Len(frames) - 1), X)

Alive(trk) == trk.time_since_update <= max_age["s1"]

LongGap == <<<<BoxA>>, <<>>, <<>>, <<>>, <<BoxA>>>>

Shown(ret) == {ret[k].serial : k \in DOMAIN ret}

\* C11: a tracker that is live when the rows of a frame are collected has a
\* row in the result of the frame if and only if its time_since_update is 0
\* and (hit_streak >= min_hits or frame_count <= min_hits); every row is the
\* state and id + 1 of such a tracker; a tracker that was not matched in the
\* frame has no row; a frame without detections returns nothing.
C11_EmissionCriterion ==
    frame.self \in Sorts =>
        /\ \A trk \in Range(frame.updated \o frame.born) :
              (trk.serial \in Shown(frame.ret)) <=>
                  /\ trk.time_since_update = 0
                  /\ \/ trk.hit_streak >= min_hits[frame.self]
                     \/ frame.frame_count <= min_hits[frame.self]
        /\ \A k \in DOMAIN frame.ret :
              \E trk \in Range(frame.updated \o frame.born) :
                  /\ frame.ret[k] = [d |-> get_state(trk), id |-> trk.id + 1,
                                     serial |-> trk.serial]
                  /\ trk \in Range(trackers[frame.self])
        /\ \A t \in Range(frame.unmatched_trks) :
              t \in DOMAIN frame.updated =>
                  /\ frame.updated[t].time_since_update >= 1
                  /\ frame.updated[t].serial \notin Shown(frame.ret)
        /\ frame.dets = <<>> => frame.ret = <<>>

\* after the warmup, a frame returns the tracker it matched for the third
\* time in a row and not the live tracker it did not match
C11_Witness ==
    /\ frame.self = "s1"
    /\ frame.frame_count = 4
    /\ min_hits["s1"] = 3
    /\ Len(frame.ret) = 1
    /\ Len(trackers["s1"]) = 2
    /\ frame.unmatched_trks # <<>>

\* C12: a tracker born on a frame b > min_hits has no row in any of the
\* frames b .. b + min_hits - 1, and if it is matched in every frame
\* b + 1 .. b + min_hits it has a row in frame b + min_hits (the tracker of
\* a box was born Len(fed) - age frames in: that frame held the box).
C12_DelayedFirstEmission ==
    made["s1"] =>
        \A trk \in Range(trackers["s1"]) :
            (Len(fed) - trk.age > min_hits["s1"]) =>
                /\ fed[Len(fed) - trk.age] = <<get_state(trk).pos>>
                /\ Len(fed) < Len(fed) - trk.age + min_hits["s1"] =>
                      \A p \in emitted["s1"] : p[2] # trk.serial
                /\ (/\ Len(fed) = Len(fed) - trk.age + min_hits["s1"]
                    /\ \A j \in (Len(fed) - trk.age + 1)..Len(fed) :
                          fed[j] = <<get_state(trk).pos>>) =>
                      trk.serial \in Shown(frame.ret)

\* min_hits 2: the box that first comes on frame 3 gets its first row on
\* frame 5
C12_Witness ==
    /\ made["s1"]
    /\ min_hits["s1"] = 2
    /\ fed = <<<<BoxA>>, <<BoxA>>, <<BoxB>>, <<BoxB>>, <<BoxB>>>>
    /\ \E k \in DOMAIN frame.ret :
          frame.ret[k].d = Finite(BoxB) /\ frame.ret[k].serial = 1

\* C13: every tracker whose predicted box has a coordinate that is NaN or
\* infinite is removed before association and no other one is; the rows
\* given to the association are, in order, the predicted boxes of the
\* trackers that remain, so that column t of a match is tracker t (violated:
\* line 310 tests for NaN only, line 312 drops the infinite rows too).
C13_NonFiniteRemoved ==
    frame.self \in Sorts =>
        /\ \A t \in DOMAIN frame.predicted :
              (t \in frame.to_del) <=>
                  (Pos(frame.predicted[t]).nan \/ Pos(frame.predicted[t]).inf)
        /\ Len(frame.trks) = Len(frame.updated)
        /\ \A t \in DOMAIN frame.trks :
              /\ t \in DOMAIN frame.updated
              /\ \E u \in DOMAIN frame.predicted :
                    /\ frame.predicted[u].serial = frame.updated[t].serial
                    /\ Pos(frame.predicted[u]) = Finite(frame.trks[t])

\* the tracker of the wide box is predicted at [-inf, y, inf, y] and stays
\* in the list, ahead of a tracker whose row is now row 0
C13_Divergence ==
    /\ frame.self = "s1"
    /\ Len(frame.predicted) = 2
    /\ Pos(frame.predicted[1]).inf
    /\ frame.to_del = {}
    /\ Len(frame.trks) = 1
    /\ Len(frame.updated) = 2
    /\ frame.trks[1] = Pos(frame.predicted[2]).pos

\* the pairs of a call whose IoU is at least / above the threshold
AtLeast ==
    {p \in (1..Len(call.detections)) \X (1..Len(call.trackers)) :
        GeQ(iou(call.detections[p[1]], call.trackers[p[2]]), call.iou_threshold)}

Over ==
    {p \in (1..Len(call.detections)) \X (1..Len(call.trackers)) :
        GtQ(iou(call.detections[p[1]], call.trackers[p[2]]), call.iou_threshold)}

OneToOne(S) ==
    \A p \in S : \A q \in S : (p[1] = q[1] \/ p[2] = q[2]) => p = q

\* C14: when the pairs with IoU >= iou_threshold are one to one, the matches
\* are exactly those pairs; and when every row and column of the thresholded
\* matrix sums to at most 1, all zero included, the result is that of the
\* direct pairing: its pairs in row-major order and the other indices in
\* increasing order (violated: the direct pairing takes IoU > threshold and
\* is used only if the largest row and column sums are 1).
C14_ThresholdFloor ==
    call.done =>
        /\ OneToOne(AtLeast) => Range(call.result.matches) = AtLeast
        /\ OneToOne(Over) =>
              /\ call.result.matches = RowMajor(Over)
              /\ call.result.unmatched_detections =
                    NotIn(Len(call.detections), {p[1] : p \in Over})
              /\ call.result.unmatched_trackers =
                    NotIn(Len(call.trackers), {p[2] : p \in Over})

\* a pair with IoU equal to the threshold is left out by the direct pairing
\* that another pair makes possible
C14_Divergence ==
    /\ call.done
    /\ call.iou_threshold = DefaultThreshold
    /\ call.detections = <<Box5, Box2>>
    /\ call.trackers = <<Box1, Box2>>
    /\ iou(Box5, Box1) = <<30, 100>>
    /\ call.result.matches = <<<<2, 2>>>>
    /\ call.result.unmatched_detections = <<1>>
    /\ call.result.unmatched_trackers = <<1>>

\* C15: the script ends with a status other than 0 when --display is given
\* and the directory mot_benchmark is missing, and with status 0 in every
\* other run, one that finds no sequence included (violated: exit() of line
\* 365 gives status 0, and line 411 divides by a total_time of 0.0).
C15_ExitStatus ==
    main.pc = "exited" =>
        ((main.status # 0) <=> (main.display /\ ~main.benchmark))

\* --display without mot_benchmark: the script has ended with status 0
C15_Divergence ==
    /\ main.pc = "exited"
    /\ main.display
    /\ ~main.benchmark
    /\ main.status = 0

\* the number of frames at the end of frames that hold the box X
RECURSIVE Trail(_, _)
Trail(frames, X) ==
    IF frames = <<>> \/ frames[Len(frames)] # <<X>> THEN 0
    ELSE 1 + Trail(SubSeq(frames, 1, Len(frames) - 1), X)

\* the length of the run of frames, the last of them frame n, in which the
\* tracker was matched; its birth, age frames ago, is no match
RunAt(trk, n) ==
    Min(Trail(SubSeq(fed, 1, n), get_state(trk).pos), trk.age - (Len(fed) - n))

\* C16 as stated: at the end of every frame the hit_streak of every live
\* tracker is the length of the run of consecutive frames, ending with this
\* frame, in which it was matched; so it is 0 at the end of a frame it
\* missed (violated: the reset waits for the next predict).
C16_Original ==
    made["s1"] =>
        \A trk \in Range(trackers["s1"]) : trk.hit_streak = RunAt(trk, Len(fed))

\* C16 as amended: at the end of every frame, a live tracker matched in the
\* frame has for hit_streak the length of the run of consecutive frames,
\* ending with this frame, in which it was matched (1 on the first match
\* after a miss); one that missed this frame only still has the length of
\* the run that ended with the frame before; one that missed this frame and
\* the one before has 0.
C16_Amended ==
    made["s1"] =>
        \A trk \in Range(trackers["s1"]) :
            /\ trk.time_since_update = 0 => trk.hit_streak = RunAt(trk, Len(fed))
            /\ trk.time_since_update = 1 => trk.hit_streak = RunAt(trk, Len(fed) - 1)
            /\ trk.time_since_update >= 2 => trk.hit_streak = 0

\* a tracker that has just missed a frame after two matches in a row: its
\* hit_streak is still 2
C16_Witness ==
    /\ made["s1"]
    /\ \E trk \in Range(trackers["s1"]) :
          /\ trk.time_since_update = 1
          /\ trk.hit_streak = 2
          /\ RunAt(trk, Len(fed)) = 0

\* The frames of birth and of the last detection of the tracker that the
\* frames fed leave for the box X under max_age ma (born = 0: none is left):
\* a frame with X starts a tracker unless one is live, and a tracker is gone
\* once more than ma frames have passed since its last detection.
RECURSIVE Life(_, _, _)
Life(frames, X, ma) ==
    IF frames = <<>> THEN [born |-> 0, last |-> 0]
    ELSE LET before == Life(SubSeq(frames, 1, Len(frames) - 1), X, ma)
         IN  IF frames[Len(frames)] = <<X>>
             THEN [born |-> IF before.born = 0 THEN Len(frames) ELSE before.born,
                   last |-> Len(frames)]
             ELSE IF before.born # 0 /\ Len(frames) - before.last > ma
             THEN [born |-> 0, last |-> 0]
             ELSE before

C17_Ages ==
    made["s1"] =>
        \A trk \in Range(trackers["s1"]) :
            /\ Life(fed, get_state(trk).pos, max_age["s1"]).born >= 1
            /\ trk.age = Len(fed) - Life(fed, get_state(trk).pos, max_age["s1"]).born
            /\ trk.time_since_update =
                  Len(fed) - Life(fed, get_state(trk).pos, max_age["s1"]).last
            /\ frame_count["s1"] = Len(fed)

C17_Frame ==
    \A old \in Range(trackers["s1"]) : \A new \in Range(trackers'["s1"]) :
        new.serial = old.serial =>
            /\ new.age = old.age + 1
            /\ new.id = old.id
            /\ new.time_since_update >= 1 =>
                  /\ new.hits = old.hits
                  /\ new.time_since_update = old.time_since_update + 1
            /\ new.time_since_update = 0 => new.hits = old.hits + 1

\* C17: at the end of every frame the age of a live tracker is frame_count
\* less the frame_count of its birth, and its time_since_update is
\* frame_count less the frame_count of its last match (of its birth if it
\* was never matched); a frame adds 1 to the age of every tracker it keeps,
\* adds at most 1 to its hits, and leaves the hits and the id of a tracker
\* it does not match as they were.
C17_CounterMeaning == [](C17_Ages) /\ [][C17_Frame]_vars

\* max_age 2: a tracker born four frames ago, matched twice, then missed in
\* the last two frames
C17_Witness ==
    /\ made["s1"]
    /\ Len(fed) = 5
    /\ \E trk \in Range(trackers["s1"]) :
          trk.age = 4 /\ trk.time_since_update = 2 /\ trk.hits = 2

\* C18 as stated: a tracker that has a row in frame k and is matched in
\* frame k + 1 has a row in frame k + 1 (violated for k = min_hits by a
\* tracker born after frame 1).
C18_Original ==
    [][\A new \in Range(trackers'["s1"]) :
          (new.serial \in Shown(frame.ret) /\ new.time_since_update = 0) =>
              new.serial \in Shown(frame'.ret)]_vars

\* C18 as amended: a tracker that has a row in frame k and is matched in
\* frame k + 1 has a row in frame k + 1 if k # min_hits, or if frame k + 1
\* is at least its min_hits-th match in a row; if k = min_hits and it is
\* not, the tracker has no row in frame k + 1 although it is matched: a
\* tracker born on a frame b with 2 <= b <= min_hits and matched in every
\* frame has rows in the frames b .. min_hits, none in the frames
\* min_hits + 1 .. b + min_hits - 1, and rows again from b + min_hits on.
C18_Amended ==
    [][\A new \in Range(trackers'["s1"]) :
        /\ (/\ new.hits = new.age
            /\ new.age >= min_hits'["s1"]) => new.serial \in Shown(frame'.ret)
        /\ (new.serial \in Shown(frame.ret) /\ new.time_since_update = 0) =>
              /\ (\/ frame.frame_count # min_hits'["s1"]
                  \/ new.hit_streak >= min_hits'["s1"]) =>
                    new.serial \in Shown(frame'.ret)
              /\ (/\ frame.frame_count = min_hits'["s1"]
                  /\ new.hit_streak < min_hits'["s1"]) =>
                    new.serial \notin Shown(frame'.ret)
              /\ (/\ new.hits = new.age
                  /\ Len(fed') - new.age >= 2
                  /\ frame.frame_count = min_hits'["s1"]) =>
                    new.serial \notin Shown(frame'.ret)]_vars

\* min_hits 3: the tracker born on frame 2 had rows in frames 2 and 3 and
\* has none in frame 4, in which it was matched
C18_Witness ==
    /\ made["s1"]
    /\ min_hits["s1"] = 3
    /\ fed = <<<<>>, <<BoxA>>, <<BoxA>>, <<BoxA>>>>
    /\ frame.matched = <<<<1, 1>>>>
    /\ frame.ret = <<>>
    /\ emitted["s1"] = {<<1, 0>>}

RECURSIVE Reverse(_)
Reverse(seq) ==
    IF seq = <<>> THEN <<>> ELSE Append(Reverse(Tail(seq)), Head(seq))

Kept_Alive(trk) == trk.time_since_update <= max_age[frame.self]

Has_Row(trk) ==
    /\ trk.time_since_update < 1
    /\ \/ trk.hit_streak >= min_hits[frame.self]
       \/ frame.frame_count <= min_hits[frame.self]

\* C19: the list of live trackers is in strictly increasing order of id,
\* before and after the walk of lines 325-333; the walk keeps, in order,
\* exactly the trackers with time_since_update <= max_age and gives exactly
\* one row to each tracker that passes the test of line 328 (so it visits
\* each tracker once); the rows are in the reverse of the order of the list,
\* that is in strictly decreasing order of id.
C19_Ordering ==
    frame.self \in Sorts =>
        /\ \A s \in Sorts : \A i \in DOMAIN trackers[s] : \A j \in DOMAIN trackers[s] :
              i < j => trackers[s][i].id < trackers[s][j].id
        /\ \A i \in DOMAIN (frame.updated \o frame.born) :
              \A j \in DOMAIN (frame.updated \o frame.born) :
                 i < j => (frame.updated \o frame.born)[i].id
                             < (frame.updated \o frame.born)[j].id
        /\ trackers[frame.self] = SelectSeq(frame.updated \o frame.born, Kept_Alive)
        /\ [k \in DOMAIN frame.ret |-> frame.ret[k].serial]
              = Reverse([k \in DOMAIN SelectSeq(frame.updated \o frame.born, Has_Row) |->
                           SelectSeq(frame.updated \o frame.born, Has_Row)[k].serial])
        /\ \A i \in DOMAIN frame.ret : \A j \in DOMAIN frame.ret :
              i < j => frame.ret[i].id > frame.ret[j].id

\* a walk over three trackers that removes the one in the middle and
\* returns the other two, the last one first
C19_Witness ==
    /\ frame.self = "s1"
    /\ Len(frame.updated \o frame.born) = 3
    /\ Len(trackers["s1"]) = 2
    /\ trackers["s1"][1].serial = (frame.updated \o frame.born)[1].serial
    /\ trackers["s1"][2].serial = (frame.updated \o frame.born)[3].serial
    /\ Len(frame.ret) = 2
    /\ frame.ret[1].id = trackers["s1"][2].id + 1
    /\ frame.ret[2].id = trackers["s1"][1].id + 1

\* C20: a track born from a detection with positive width and height has
\* s > 0.  KalmanBoxTracker.predict keeps s > 0: when s + s' <= 0 the
\* velocity is zeroed and s is unchanged, otherwise the new s is s + s' > 0
\* and the velocity is kept.  The guard does not restore s > 0: from
\* s <= 0 with s + s' <= 0 the area is left as it is, not positive.
C20_AreaGuard ==
    /\ \A bbox \in PredictBoxes \cup {BoxA, BoxC, BoxW, BoxZ} :
          (bbox[3] - bbox[1] > 0 /\ bbox[4] - bbox[2] > 0)
              => KalmanBoxTracker_init(bbox, 0, 1).kf_x[3] > 0
    /\ given # <<>> =>
          /\ Len(trackers["s1"]) = 1
          /\ given[1].kf_x[3] > 0 => trackers["s1"][1].kf_x[3] > 0
          /\ given[1].kf_x[3] + given[1].kf_x[7] <= 0 =>
                /\ trackers["s1"][1].kf_x[3] = given[1].kf_x[3]
                /\ trackers["s1"][1].kf_x[7] = 0
          /\ given[1].kf_x[3] + given[1].kf_x[7] > 0 =>
                /\ trackers["s1"][1].kf_x[3] = given[1].kf_x[3] + given[1].kf_x[7]
                /\ trackers["s1"][1].kf_x[7] = given[1].kf_x[7]
          /\ (given[1].kf_x[3] <= 0 /\ given[1].kf_x[3] + given[1].kf_x[7] <= 0)
                => trackers["s1"][1].kf_x[3] <= 0

\* a tracker of area 4 shrinking by 10 a frame has been predicted: its
\* area is still 4 and its velocity is 0
C20_Witness ==
    /\ given # <<>>
    /\ given[1].kf_x[3] = 4
    /\ given[1].kf_x[7] = -10
    /\ trackers["s1"][1].kf_x[3] = 4
    /\ trackers["s1"][1].kf_x[7] = 0
    /\ trackers["s1"][1].age = 1

====
